---- MODULE Spec2Model ----
(***************************************************************************)
(* Model of android/app/src/main/cpp/ai_chat.cpp: the conversational       *)
(* inference session exposed over FFI.  The engine (llama.cpp) is seen     *)
(* through the calls the file makes: its position-indexed memory is the    *)
(* bag kv of resident positions of sequence 0, llama_decode adds the       *)
(* positions of a batch or reports failure, the sampler yields a token.    *)
(* Every FFI entry point is one atomic action (the calls are synchronous   *)
(* and the host serialises them).                                          *)
(***************************************************************************)
EXTENDS Integers, Sequences, FiniteSets, Bags, TLC

\* ---- program constants (ai_chat.cpp:23-25) ----
DEFAULT_CONTEXT_SIZE == 256
OVERFLOW_HEADROOM == 4
BATCH_SIZE == 1

\* ---- bounds of the model ----
\* short prompts tokenize to 1..MaxShort tokens
MaxShort == 1
\* n_predict ranges over 0..MaxPredict
MaxPredict == 1
\* generate_next_token_ffi calls followed per conversation
MaxGenCalls == 2
\* process_user_prompt_ffi calls followed per conversation
MaxTurns == 2
\* engine handles that can be live or dangling at once
MaxHandles == 5

VARIABLES
    backend_ready,              \* llama_backend_init done, llama_backend_free not
    g_model, g_context, g_batch, g_sampler,   \* handles; NULL = nullptr
    live,                       \* handles created and not yet freed
    double_freed,               \* handles passed to a free call while not live
    chat_msgs,
    system_prompt_position, current_position, stop_generation_position,
    cached_token_chars, assistant_ss,
    kv,                         \* bag of positions resident in g_context's memory
    crashed,                    \* the process dereferenced a null model
    call, ret, obs,             \* last entry point called, its result, what it did
    turn_open, gen_count, n_predict_turn,   \* history of the turn being polled
    gen_calls, turns            \* calls made in this conversation

vars == <<backend_ready, g_model, g_context, g_batch, g_sampler, live, double_freed,
          chat_msgs, system_prompt_position, current_position,
          stop_generation_position, cached_token_chars, assistant_ss, kv, crashed,
          call, ret, obs, turn_open, gen_count, n_predict_turn, gen_calls, turns>>

NULL == 0
NullPrompt == 0 - 1

Min(a, b) == IF a < b THEN a ELSE b

\* C++ int division truncates toward zero
CDiv(a, b) == IF a >= 0 THEN a \div b ELSE 0 - ((0 - a) \div b)

\* ---- return values ----
Status(n) == [kind |-> "status", status |-> n, chunk |-> <<>>]
Void == [kind |-> "void", status |-> 0, chunk |-> <<>>]
NullPtr == [kind |-> "null", status |-> 0, chunk |-> <<>>]
Chunk(s) == [kind |-> "chunk", status |-> 0, chunk |-> s]

\* ---- engine memory (llama_memory_* on sequence 0) ----
\* The memory is a bag of positions, one copy per resident cell.
EmptyMemory == EmptyBag

\* the number of cells in use
Cells(m) == BagCardinality(m)

\* the positions that some cell holds
Positions(m) == BagToSet(m)

\* the cells of m at the positions of R, moved by delta (m is bound once, so
\* that every lookup reads the same computed bag)
Moved(m, R, delta) ==
    CHOOSE part \in {[p \in {q + delta : q \in R} |-> mm[p - delta]] : mm \in {m}} : TRUE

\* the cells of m at the positions of R
Part(m, R) == Moved(m, R, 0)

\* llama_memory_clear
MemoryClear(m) == EmptyMemory

\* a variant of MemorySeqRm that starts one position too low: C6 tells it apart
MemorySeqRm_one_below(m, p0, p1) ==
    m (-) Part(m, Positions(m) \cap (p0 - 1 .. p1 - 1))

\* llama_memory_seq_rm(mem, 0, p0, p1): drop the cells with p0 <= pos < p1
MemorySeqRm(m, p0, p1) ==
    IF p0 >= p1 THEN m
    ELSE m (-) Part(m, Positions(m) \cap (p0 .. p1 - 1))

\* llama_memory_seq_add(mem, 0, p0, p1, delta): renumber the cells with
\* p0 <= pos < p1 to pos + delta
MemorySeqAdd(m, p0, p1, delta) ==
    IF p0 >= p1 \/ delta = 0 THEN m
    ELSE LET R == Positions(m) \cap (p0 .. p1 - 1)
         IN (m (-) Part(m, R)) (+) Moved(m, R, delta)

\* m and m2 hold the same cells below position p
SameBelow(m, m2, p) ==
    \/ m = m2
    \/ Part(m, {q \in Positions(m) : q < p}) = Part(m2, {q \in Positions(m2) : q < p})

\* llama_decode of a one-sequence batch of k tokens: the context was created
\* with n_ctx = DEFAULT_CONTEXT_SIZE cells (line 188), a batch that finds no
\* free cells is refused; engine_ok is the engine's own verdict otherwise
DecodeAccepts(m, k, engine_ok) ==
    engine_ok /\ Cells(m) + k <= DEFAULT_CONTEXT_SIZE

\* what an accepted llama_decode leaves: a cell for each position lo..hi
DecodeStore(m, lo, hi) == m (+) SetToBag(lo .. hi)

\* ---- the session's conversation state as one value ----
Session == [system_prompt_position |-> system_prompt_position,
            current_position |-> current_position,
            stop_generation_position |-> stop_generation_position,
            cached_token_chars |-> cached_token_chars,
            assistant_ss |-> assistant_ss,
            chat_msgs |-> chat_msgs,
            kv |-> kv,
            shifts |-> {},
            decoded_at |-> {}]

\* the conversation state of a process that has just prepared its first session
FreshSession == [system_prompt_position |-> 0,
                 current_position |-> 0,
                 stop_generation_position |-> 0,
                 cached_token_chars |-> <<>>,
                 assistant_ss |-> <<>>,
                 chat_msgs |-> <<>>,
                 kv |-> EmptyMemory,
                 shifts |-> {},
                 decoded_at |-> {}]

\* ---- helper functions of ai_chat.cpp ----
\* a variant of reset_long_term_states that never clears the engine memory:
\* C10 tells it apart
reset_long_term_states_memory_kept(s, clear_kv_cache, context) ==
    [s EXCEPT !.chat_msgs = <<>>,
              !.system_prompt_position = 0,
              !.current_position = 0]

reset_long_term_states(s, clear_kv_cache, context) ==
    [s EXCEPT !.chat_msgs = <<>>,
              !.system_prompt_position = 0,
              !.current_position = 0,
              !.kv = IF clear_kv_cache /\ context # NULL THEN MemoryClear(@) ELSE @]

\* a variant of reset_short_term_states that leaves the pending bytes in
\* cached_token_chars: C12 tells it apart
reset_short_term_states_bytes_kept(s) ==
    [s EXCEPT !.stop_generation_position = 0,
              !.assistant_ss = <<>>]

reset_short_term_states(s) ==
    [s EXCEPT !.stop_generation_position = 0,
              !.cached_token_chars = <<>>,
              !.assistant_ss = <<>>]

\* a variant of n_discard_of that rounds the half up: C5 tells it apart
n_discard_rounded_up(s) ==
    CDiv(s.current_position - s.system_prompt_position + 1, 2)

n_discard_of(s) == CDiv(s.current_position - s.system_prompt_position, 2)

\* shift_context, with a record of the shift added to s.shifts
shift_context(s, by) ==
    LET n_discard == n_discard_of(s)
        spp == s.system_prompt_position
        m1 == MemorySeqRm(s.kv, spp, spp + n_discard)
        m2 == MemorySeqAdd(m1, spp + n_discard, s.current_position, 0 - n_discard)
        t  == [s EXCEPT !.kv = m2, !.current_position = @ - n_discard]
    IN [t EXCEPT !.shifts = @ \cup
          {[by |-> by,
            sys_before |-> spp, sys_after |-> t.system_prompt_position,
            cur_before |-> s.current_position, cur_after |-> t.current_position,
            rm_from |-> spp, rm_to |-> spp + n_discard,
            add_from |-> spp + n_discard, add_to |-> s.current_position,
            delta |-> 0 - n_discard,
            low_kept |-> SameBelow(s.kv, m2, spp),
            kv_same |-> s.kv = m2]}]

\* a variant of BatchWontFit that shifts one token early: C7 tells it apart
BatchWontFit_one_early(start_pos, i, cur_batch_size) ==
    start_pos + i + cur_batch_size >= DEFAULT_CONTEXT_SIZE - OVERFLOW_HEADROOM - 1

\* line 79: the batch at offset i would not fit
BatchWontFit(start_pos, i, cur_batch_size) ==
    start_pos + i + cur_batch_size >= DEFAULT_CONTEXT_SIZE - OVERFLOW_HEADROOM

\* one turn of the loop of decode_tokens_in_batches (lines 76-95), for the
\* batch at offset i (0-based); d = [s: the session, result: 1 once a decode
\* has failed and the function has returned].  fail_at is the number of the
\* batch (1-based) the engine refuses, 0 for none.
DecodeBatch(d, tokens, start_pos, i, fail_at) ==
    IF d.result # 0
    THEN d
    ELSE LET cur_batch_size == Min(Len(tokens) - i, BATCH_SIZE)
             s1 == IF BatchWontFit(start_pos, i, cur_batch_size)
                   THEN shift_context(d.s, "decode")
                   ELSE d.s
             first == start_pos + i
             last == start_pos + i + cur_batch_size - 1
             engine_ok == fail_at # (i \div BATCH_SIZE) + 1
         IN IF ~DecodeAccepts(s1.kv, cur_batch_size, engine_ok)
            THEN [s |-> s1, result |-> 1]
            ELSE [s |-> [s1 EXCEPT !.kv = DecodeStore(@, first, last),
                                   !.decoded_at = @ \cup (first .. last)],
                  result |-> 0]

\* offsets and positions of the batches numbered from .. to - 1
FirstOffset(from) == from * BATCH_SIZE
LastOffset(tokens, to) == Min(to * BATCH_SIZE, Len(tokens)) - 1
BatchSize(tokens, b) == Min(Len(tokens) - b * BATCH_SIZE, BATCH_SIZE)

\* The batches from .. to - 1 all take the same path through the loop body:
\* the engine refuses none of them, and either none of them triggers a shift
\* or each triggers a shift that discards nothing (current_position and
\* system_prompt_position do not change inside the loop but by a shift).
\* start_pos + i + cur_batch_size does not decrease with the batch number, so
\* the first and the last batch of the range decide line 79 for all of them.
SamePath(d, tokens, start_pos, from, to, fail_at) ==
    /\ d.result = 0
    /\ ~(fail_at >= from + 1 /\ fail_at <= to)
    /\ Cells(d.s.kv) + (LastOffset(tokens, to) - FirstOffset(from) + 1)
          <= DEFAULT_CONTEXT_SIZE
    /\ \/ ~BatchWontFit(start_pos, FirstOffset(to - 1), BatchSize(tokens, to - 1))
       \/ /\ BatchWontFit(start_pos, FirstOffset(from), BatchSize(tokens, from))
          /\ n_discard_of(d.s) = 0

\* what the loop body leaves after the batches of such a range: the shift (if
\* any) recorded, every position of the range decoded
DecodeSamePath(d, tokens, start_pos, from, to) ==
    LET s1 == IF BatchWontFit(start_pos, FirstOffset(from), BatchSize(tokens, from))
              THEN shift_context(d.s, "decode")
              ELSE d.s
        first == start_pos + FirstOffset(from)
        last == start_pos + LastOffset(tokens, to)
    IN [s |-> [s1 EXCEPT !.kv = DecodeStore(@, first, last),
                         !.decoded_at = @ \cup (first .. last)],
        result |-> 0]

\* the turns of the loop for the batches numbered from .. to - 1, in order: a
\* range of batches on the same path in one step, any other range by halves
RECURSIVE DecodeBatches(_, _, _, _, _, _)
DecodeBatches(d, tokens, start_pos, from, to, fail_at) ==
    IF from >= to \/ d.result # 0 THEN d
    ELSE IF to = from + 1
    THEN DecodeBatch(d, tokens, start_pos, FirstOffset(from), fail_at)
    ELSE IF SamePath(d, tokens, start_pos, from, to, fail_at)
    THEN DecodeSamePath(d, tokens, start_pos, from, to)
    ELSE LET mid == (from + to) \div 2
             first == DecodeBatches(d, tokens, start_pos, from, mid, fail_at)
         IN IF first.result # 0
            THEN first
            ELSE DecodeBatches(first, tokens, start_pos, mid, to, fail_at)

\* decode_tokens_in_batches: the session after the loop and the return value
decode_tokens_in_batches(s, tokens, start_pos, fail_at) ==
    DecodeBatches([s |-> s, result |-> 0], tokens, start_pos, 0,
                  (Len(tokens) + BATCH_SIZE - 1) \div BATCH_SIZE, fail_at)

\* is_valid_utf8 on the C string of str: bytes up to the first 0x00
ByteAt(str, k) == IF k <= Len(str) THEN str[k] ELSE 0

RECURSIVE ValidFrom(_, _)
ValidFrom(str, k) ==
    LET b == ByteAt(str, k)
        num == IF b \div 128 = 0 THEN 1
               ELSE IF b \div 32 = 6 THEN 2
               ELSE IF b \div 16 = 14 THEN 3
               ELSE IF b \div 8 = 30 THEN 4
               ELSE 0
    IN IF b = 0 THEN TRUE
       ELSE IF num = 0 THEN FALSE
       ELSE IF \E i \in 1 .. num - 1 : ByteAt(str, k + i) \div 64 # 2
            THEN FALSE
            ELSE ValidFrom(str, k + num)

\* a variant of is_valid_utf8 that looks at the first byte only, not the
\* continuation bytes after it: C8 tells it apart
is_valid_utf8_first_byte_only(str) ==
    LET b == ByteAt(str, 1)
    IN b \div 128 = 0 \/ b \div 32 = 6 \/ b \div 16 = 14 \/ b \div 8 = 30

is_valid_utf8(str) == ValidFrom(str, 1)

\* common_tokenize: the prompt's tokens, each token identified by its place in
\* the prompt
Tokenize(n) == [i \in 1 .. n |-> i] \o <<>>

\* std::vector::resize(n) on a longer vector
Resize(tokens, n) == SubSeq(tokens, 1, n)

\* ---- engine handles ----
\* the handle the allocator returns: the lowest address that is not live (a
\* freed address may be handed out again), other than those in taken
NewHandle(taken) ==
    LET free == (1 .. MaxHandles) \ (live \cup taken)
    IN IF free = {} THEN NULL ELSE CHOOSE h \in free : \A g \in free : h <= g

\* a free call on handle h
FreeHandle(r, h) ==
    IF h \in r.live
    THEN [r EXCEPT !.live = @ \ {h}]
    ELSE [r EXCEPT !.double_freed = @ \cup {h}]

\* what a call that decodes or samples nothing leaves in obs
NoObs == [arg_tokens |-> 0, n_predict |-> 0, fail_at |-> 0,
          handed |-> FALSE, decoded |-> <<>>, start_pos |-> 0,
          shifts |-> {}, decoded_at |-> {},
          piece |-> <<>>, sampled |-> FALSE, eog |-> FALSE]

SetSession(s) ==
    /\ chat_msgs' = s.chat_msgs
    /\ system_prompt_position' = s.system_prompt_position
    /\ current_position' = s.current_position
    /\ stop_generation_position' = s.stop_generation_position
    /\ cached_token_chars' = s.cached_token_chars
    /\ assistant_ss' = s.assistant_ss
    /\ kv' = s.kv

sessionVars == <<chat_msgs, system_prompt_position, current_position,
                 stop_generation_position, cached_token_chars, assistant_ss, kv>>
handleVars == <<g_model, g_context, g_batch, g_sampler, live, double_freed>>

\* any call other than generate_next_token_ffi ends the polling of the turn
EndTurn ==
    /\ turn_open' = FALSE
    /\ UNCHANGED <<gen_count, n_predict_turn>>

\* the conversation starts over
NewConversation == gen_calls' = 0 /\ turns' = 0
SameConversation == UNCHANGED <<gen_calls, turns>>

Init ==
    /\ backend_ready = FALSE
    /\ g_model = NULL /\ g_context = NULL /\ g_batch = NULL /\ g_sampler = NULL
    /\ live = {} /\ double_freed = {}
    /\ chat_msgs = <<>>
    /\ system_prompt_position = 0 /\ current_position = 0
    /\ stop_generation_position = 0
    /\ cached_token_chars = <<>> /\ assistant_ss = <<>>
    /\ kv = EmptyMemory
    /\ crashed = FALSE
    /\ call = "none" /\ ret = Void
    /\ obs = NoObs
    /\ turn_open = FALSE /\ gen_count = 0 /\ n_predict_turn = 0
    /\ gen_calls = 0 /\ turns = 0

init_ffi ==
    /\ ~crashed
    /\ backend_ready' = TRUE
    /\ call' = "init_ffi" /\ ret' = Void /\ obs' = NoObs
    /\ EndTurn /\ SameConversation
    /\ UNCHANGED <<handleVars, sessionVars, crashed>>

load_model_ffi(path_null, load_ok) ==
    /\ ~crashed
    /\ call' = "load_model_ffi" /\ obs' = NoObs
    /\ EndTurn /\ SameConversation
    /\ UNCHANGED <<backend_ready, g_context, g_batch, g_sampler, double_freed,
                   sessionVars, crashed>>
    /\ IF path_null
       THEN ret' = Status(1) /\ UNCHANGED <<g_model, live>>
       ELSE IF load_ok
       THEN /\ NewHandle({}) # NULL
            /\ g_model' = NewHandle({})
            /\ live' = live \cup {NewHandle({})}
            /\ ret' = Status(0)
       ELSE /\ g_model' = NULL
            /\ ret' = Status(1)
            /\ UNCHANGED live

prepare_session_ffi(context_ok) ==
    /\ ~crashed
    /\ call' = "prepare_session_ffi" /\ obs' = NoObs
    /\ EndTurn /\ SameConversation
    /\ UNCHANGED <<backend_ready, g_model, double_freed, chat_msgs,
                   system_prompt_position, current_position,
                   stop_generation_position, cached_token_chars, assistant_ss,
                   crashed>>
    /\ IF g_model = NULL
       THEN ret' = Status(1) /\ UNCHANGED <<g_context, g_batch, g_sampler, live, kv>>
       ELSE IF ~context_ok
       THEN /\ g_context' = NULL
            /\ kv' = EmptyMemory
            /\ ret' = Status(1)
            /\ UNCHANGED <<g_batch, g_sampler, live>>
       ELSE LET c == NewHandle({})
                b == NewHandle({c})
                p == NewHandle({c, b})
            IN /\ c # NULL /\ b # NULL /\ p # NULL
               /\ g_context' = c
               /\ kv' = EmptyMemory
               /\ g_batch' = b
               /\ g_sampler' = p
               /\ live' = live \cup {c, b, p}
               /\ ret' = Status(0)

\* ---- the conversation entry points as functions of the session ----
\* process_system_prompt_ffi past its parameter check (lines 224-246)
SystemPromptOn(s, context, n, fail_at) ==
    LET s1 == reset_short_term_states(reset_long_term_states(s, TRUE, context))
        system_tokens == Tokenize(n)
    IN IF Len(system_tokens) > DEFAULT_CONTEXT_SIZE - OVERFLOW_HEADROOM
       THEN [s |-> s1, ret |-> 1, handed |-> FALSE, decoded |-> <<>>,
             start_pos |-> 0]
       ELSE LET d == decode_tokens_in_batches(s1, system_tokens,
                                              s1.current_position, fail_at)
            IN [s |-> IF d.result # 0 THEN d.s
                      ELSE [d.s EXCEPT !.system_prompt_position = Len(system_tokens),
                                       !.current_position = Len(system_tokens)],
                ret |-> IF d.result # 0 THEN 2 ELSE 0,
                handed |-> TRUE, decoded |-> system_tokens,
                start_pos |-> s1.current_position]

\* lines 263-270: the tokens process_user_prompt_ffi hands to the decode driver
TruncatePrompt(user_tokens) ==
    LET user_prompt_size == Len(user_tokens)
        max_batch_size == DEFAULT_CONTEXT_SIZE - OVERFLOW_HEADROOM
    IN IF user_prompt_size > max_batch_size
       THEN Resize(user_tokens, max_batch_size)
       ELSE user_tokens

\* process_user_prompt_ffi past its parameter check, up to the return of the
\* decode driver (lines 256-272)
UserPromptDecode(s, n, fail_at) ==
    LET s1 == reset_short_term_states(s)
        user_tokens == TruncatePrompt(Tokenize(n))
        d == decode_tokens_in_batches(s1, user_tokens, s1.current_position, fail_at)
    IN [s |-> d.s, result |-> d.result, decoded |-> user_tokens,
        start_pos |-> s1.current_position]

\* a variant of UserPromptFinish that advances the positions whatever the
\* decode driver returned: C16 tells it apart
UserPromptFinish_result_ignored(d, n, n_predict) ==
    LET pos == d.s.current_position + Len(Tokenize(n))
    IN [s |-> [d.s EXCEPT !.current_position = pos,
                          !.stop_generation_position = pos + n_predict],
        ret |-> IF d.result # 0 THEN 2 ELSE 0,
        handed |-> TRUE, decoded |-> d.decoded, start_pos |-> d.start_pos]

\* the rest of process_user_prompt_ffi (lines 272-281)
UserPromptFinish(d, n, n_predict) ==
    LET user_prompt_size == Len(Tokenize(n))
        pos == d.s.current_position + user_prompt_size
    IN [s |-> IF d.result # 0 THEN d.s
              ELSE [d.s EXCEPT !.current_position = pos,
                               !.stop_generation_position = pos + n_predict],
        ret |-> IF d.result # 0 THEN 2 ELSE 0,
        handed |-> TRUE, decoded |-> d.decoded, start_pos |-> d.start_pos]

\* a variant of Assemble that leaves the emitted bytes in the buffer: C17
\* tells it apart
Assemble_buffer_kept(s, piece) ==
    LET cached == s.cached_token_chars \o piece
    IN IF is_valid_utf8(cached)
       THEN [s |-> [s EXCEPT !.cached_token_chars = cached,
                             !.assistant_ss = @ \o cached],
             ret |-> Chunk(cached)]
       ELSE [s |-> [s EXCEPT !.cached_token_chars = cached],
             ret |-> Chunk(<<>>)]

\* lines 320-333: the streaming assembler on one detokenized piece
Assemble(s, piece) ==
    LET cached == s.cached_token_chars \o piece
    IN IF is_valid_utf8(cached)
       THEN [s |-> [s EXCEPT !.cached_token_chars = <<>>,
                             !.assistant_ss = @ \o cached],
             ret |-> Chunk(cached)]
       ELSE [s |-> [s EXCEPT !.cached_token_chars = cached],
             ret |-> Chunk(<<>>)]

\* generate_next_token_ffi past its handle check (lines 291-333); tok is the
\* token the sampler draws, engine_ok the engine's verdict on its decode
GenerateOn(s, tok, engine_ok) ==
    LET s1 == IF s.current_position >= DEFAULT_CONTEXT_SIZE - OVERFLOW_HEADROOM
              THEN shift_context(s, "generate")
              ELSE s
        at == s1.current_position
    IN IF s1.current_position >= s1.stop_generation_position
       THEN [s |-> s1, ret |-> NullPtr, sampled |-> FALSE, decoded |-> FALSE]
       ELSE IF ~DecodeAccepts(s1.kv, 1, engine_ok)
       THEN [s |-> s1, ret |-> NullPtr, sampled |-> TRUE, decoded |-> FALSE]
       ELSE LET s2 == [s1 EXCEPT !.kv = DecodeStore(@, at, at),
                                 !.decoded_at = @ \cup {at},
                                 !.current_position = @ + 1]
            IN IF tok.eog
               THEN [s |-> s2, ret |-> NullPtr, sampled |-> TRUE, decoded |-> TRUE]
               ELSE [s |-> Assemble(s2, tok.piece).s,
                     ret |-> Assemble(s2, tok.piece).ret,
                     sampled |-> TRUE, decoded |-> TRUE]

\* a variant of UnloadResources that leaves g_sampler set after freeing it:
\* C9 tells it apart
UnloadResources_sampler_kept(r) ==
    LET r1 == IF r.g_sampler # NULL THEN FreeHandle(r, r.g_sampler) ELSE r
        r2 == IF r1.g_context # NULL
              THEN [FreeHandle(FreeHandle(r1, r1.g_batch), r1.g_context)
                       EXCEPT !.g_context = NULL]
              ELSE r1
    IN IF r2.g_model # NULL
       THEN [FreeHandle(r2, r2.g_model) EXCEPT !.g_model = NULL]
       ELSE r2

\* lines 354-368 of unload_ffi: the frees, on r = the handles and their state
UnloadResources(r) ==
    LET r1 == IF r.g_sampler # NULL
              THEN [FreeHandle(r, r.g_sampler) EXCEPT !.g_sampler = NULL]
              ELSE r
        r2 == IF r1.g_context # NULL
              THEN [FreeHandle(FreeHandle(r1, r1.g_batch), r1.g_context)
                       EXCEPT !.g_context = NULL]
              ELSE r1
    IN IF r2.g_model # NULL
       THEN [FreeHandle(r2, r2.g_model) EXCEPT !.g_model = NULL]
       ELSE r2

Handles == [g_model |-> g_model, g_context |-> g_context, g_batch |-> g_batch,
            g_sampler |-> g_sampler, live |-> live, double_freed |-> double_freed]

\* unload_ffi as a whole: the session and handles it leaves
Unloaded ==
    [s |-> [reset_short_term_states(reset_long_term_states(Session, FALSE, g_context))
               EXCEPT !.kv = IF g_context # NULL THEN EmptyMemory ELSE @],
     r |-> UnloadResources(Handles)]

SetHandles(r) ==
    /\ g_model' = r.g_model
    /\ g_context' = r.g_context
    /\ g_batch' = r.g_batch
    /\ g_sampler' = r.g_sampler
    /\ live' = r.live
    /\ double_freed' = r.double_freed

\* ---- the conversation entry points as actions ----
process_system_prompt_ffi(n, fail_at) ==
    /\ ~crashed
    /\ call' = "process_system_prompt_ffi"
    /\ EndTurn
    /\ UNCHANGED <<backend_ready, handleVars, crashed>>
    /\ IF n = NullPrompt \/ g_context = NULL
       THEN /\ ret' = Status(1)
            /\ obs' = [NoObs EXCEPT !.arg_tokens = n, !.fail_at = fail_at]
            /\ SameConversation
            /\ UNCHANGED sessionVars
       ELSE LET r == SystemPromptOn(Session, g_context, n, fail_at)
            IN /\ SetSession(r.s)
               /\ ret' = Status(r.ret)
               /\ NewConversation
               /\ obs' = [NoObs EXCEPT !.arg_tokens = n, !.fail_at = fail_at,
                                       !.handed = r.handed, !.decoded = r.decoded,
                                       !.start_pos = r.start_pos,
                                       !.shifts = r.s.shifts,
                                       !.decoded_at = r.s.decoded_at]

\* predicts: the values of n_predict followed
process_user_prompt_ffi(n, predicts, fail_at) ==
    /\ ~crashed
    /\ call' = "process_user_prompt_ffi"
    /\ UNCHANGED <<backend_ready, handleVars, crashed>>
    /\ IF n = NullPrompt \/ g_context = NULL
       THEN /\ ret' = Status(1)
            /\ obs' = [NoObs EXCEPT !.arg_tokens = n, !.fail_at = fail_at]
            /\ EndTurn /\ SameConversation
            /\ UNCHANGED sessionVars
       ELSE /\ turns < MaxTurns
            /\ LET d == UserPromptDecode(Session, n, fail_at)
               IN \E n_predict \in predicts :
                     LET r == UserPromptFinish(d, n, n_predict)
                     IN /\ SetSession(r.s)
                        /\ ret' = Status(r.ret)
                        /\ turns' = turns + 1
                        /\ turn_open' = (r.ret = 0)
                        /\ gen_count' = 0
                        /\ UNCHANGED gen_calls
                        /\ n_predict_turn' = n_predict
                        /\ obs' = [NoObs EXCEPT !.arg_tokens = n,
                                                !.n_predict = n_predict,
                                                !.fail_at = fail_at,
                                                !.handed = r.handed,
                                                !.decoded = r.decoded,
                                                !.start_pos = r.start_pos,
                                                !.shifts = r.s.shifts,
                                                !.decoded_at = r.s.decoded_at]

\* generate_next_token_ffi but for the count of its calls.  ub_crash: whether
\* the null model dereferenced at line 314 ends the process; gen_count counts
\* the chunks of the turn up to count_to
GenerateCall(tok, engine_ok, ub_crash, count_to) ==
    /\ ~crashed
    /\ call' = "generate_next_token_ffi"
    /\ UNCHANGED <<backend_ready, handleVars, turns, n_predict_turn>>
    /\ IF g_context = NULL \/ g_sampler = NULL
       THEN /\ ret' = NullPtr
            /\ obs' = NoObs
            /\ turn_open' = FALSE
            /\ UNCHANGED <<sessionVars, crashed, gen_count>>
       ELSE \E r \in {GenerateOn(Session, tok, engine_ok)} :
            LET o == [NoObs EXCEPT !.shifts = r.s.shifts,
                                   !.decoded_at = r.s.decoded_at,
                                   !.sampled = r.sampled,
                                   !.eog = r.decoded /\ tok.eog,
                                   !.piece = IF r.decoded /\ ~tok.eog
                                             THEN tok.piece ELSE <<>>]
            IN IF r.decoded /\ g_model = NULL /\ ub_crash
               THEN /\ crashed' = TRUE
                    /\ SetSession([r.s EXCEPT
                                     !.cached_token_chars = cached_token_chars,
                                     !.assistant_ss = assistant_ss])
                    /\ ret' = NullPtr
                    /\ obs' = [o EXCEPT !.piece = <<>>, !.eog = FALSE]
                    /\ turn_open' = FALSE
                    /\ UNCHANGED gen_count
               ELSE /\ SetSession(r.s)
                    /\ ret' = r.ret
                    /\ obs' = o
                    /\ turn_open' = (turn_open /\ r.ret.kind = "chunk")
                    /\ gen_count' = IF turn_open /\ r.ret.kind = "chunk"
                                    THEN Min(gen_count + 1, count_to)
                                    ELSE gen_count
                    /\ UNCHANGED crashed

\* a call among the MaxGenCalls followed per conversation
generate_next_token_ffi(tok, engine_ok, ub_crash) ==
    /\ gen_calls < MaxGenCalls
    /\ gen_calls' = gen_calls + 1
    /\ GenerateCall(tok, engine_ok, ub_crash, MaxGenCalls)

\* a call of a caller that polls without end: the calls are not counted, and
\* the chunks of the turn are counted up to one more than n_predict
generate_next_token_ffi_polled(tok) ==
    /\ UNCHANGED gen_calls
    /\ GenerateCall(tok, TRUE, FALSE, n_predict_turn + 1)

stop_generation_ffi ==
    /\ ~crashed
    /\ call' = "stop_generation_ffi" /\ ret' = Void /\ obs' = NoObs
    /\ SetSession(reset_short_term_states(Session))
    /\ EndTurn /\ SameConversation
    /\ UNCHANGED <<backend_ready, handleVars, crashed>>

reset_conversation_ffi ==
    /\ ~crashed
    /\ call' = "reset_conversation_ffi" /\ ret' = Void /\ obs' = NoObs
    /\ SetSession(reset_short_term_states(
                      reset_long_term_states(Session, TRUE, g_context)))
    /\ EndTurn /\ NewConversation
    /\ UNCHANGED <<backend_ready, handleVars, crashed>>

unload_ffi ==
    /\ ~crashed
    /\ call' = "unload_ffi" /\ ret' = Void /\ obs' = NoObs
    /\ SetSession(Unloaded.s)
    /\ SetHandles(Unloaded.r)
    /\ EndTurn /\ NewConversation
    /\ UNCHANGED <<backend_ready, crashed>>

shutdown_ffi ==
    /\ ~crashed
    /\ call' = "shutdown_ffi" /\ ret' = Void /\ obs' = NoObs
    /\ SetSession(Unloaded.s)
    /\ SetHandles(Unloaded.r)
    /\ backend_ready' = FALSE
    /\ EndTurn /\ NewConversation
    /\ UNCHANGED crashed

\* ---- inputs ----
\* prompt lengths in tokens: short ones, and long ones next to the limit
\* DEFAULT_CONTEXT_SIZE - OVERFLOW_HEADROOM (the longest that still leaves
\* room for MaxShort tokens below it, and one token too many)
ShortSizes == 1 .. MaxShort
LongSizes == {DEFAULT_CONTEXT_SIZE - OVERFLOW_HEADROOM - MaxShort,
              DEFAULT_CONTEXT_SIZE - OVERFLOW_HEADROOM + 1}

\* batches at which the engine's decode may report failure (0: none): the
\* middle one and the last one of a prompt of n tokens
FailChoices(n) == {0} \cup {k \in {(n + 1) \div 2, n} : k >= 1}

Token(piece) == [piece |-> piece, eog |-> FALSE]
EogToken == [piece |-> <<>>, eog |-> TRUE]

\* the pieces the sampled tokens detokenize to: "A"
Pieces == {<<65>>}
Tokens == {Token(p) : p \in Pieces} \cup {EogToken}

\* the first and the last character of each multi-byte length of UTF-8:
\* U+0080, U+07FF, U+0800, U+FFFF, U+10000, U+10FFFF
Utf8Chars == {<<194, 128>>, <<223, 191>>,
              <<224, 160, 128>>, <<239, 191, 191>>,
              <<240, 144, 128, 128>>, <<244, 143, 191, 191>>}

\* a character cut at an interior point
Heads(c) == {SubSeq(c, 1, k) : k \in 1 .. Len(c) - 1}
Tails(c) == {SubSeq(c, k + 1, Len(c)) : k \in 1 .. Len(c) - 1}
Utf8Pieces == Utf8Chars \cup UNION {Heads(c) \cup Tails(c) : c \in Utf8Chars}
Utf8Tokens == {Token(p) : p \in Utf8Pieces \cup Pieces} \cup {EogToken}

\* ---- the whole interface, from process start, on short prompts ----
Next ==
    \/ init_ffi
    \/ \E path_null \in BOOLEAN, load_ok \in BOOLEAN : load_model_ffi(path_null, load_ok)
    \/ \E context_ok \in BOOLEAN : prepare_session_ffi(context_ok)
    \/ \E n \in ShortSizes \cup {NullPrompt} : \E fail_at \in FailChoices(n) :
          process_system_prompt_ffi(n, fail_at)
    \/ \E n \in ShortSizes \cup {NullPrompt} : \E fail_at \in FailChoices(n) :
          process_user_prompt_ffi(n, 0 .. MaxPredict, fail_at)
    \/ \E tok \in Tokens, engine_ok \in BOOLEAN, ub_crash \in BOOLEAN :
          generate_next_token_ffi(tok, engine_ok, ub_crash)
    \/ stop_generation_ffi
    \/ reset_conversation_ffi
    \/ unload_ffi
    \/ shutdown_ffi

Spec == Init /\ [][Next]_vars

\* ---- conversations on a prepared session, prompts short and long ----
\* the state once init_ffi, load_model_ffi and prepare_session_ffi have each
\* returned success for the first time
InitPrepared ==
    /\ backend_ready = TRUE
    /\ g_model = 1 /\ g_context = 2 /\ g_batch = 3 /\ g_sampler = 4
    /\ live = {1, 2, 3, 4} /\ double_freed = {}
    /\ chat_msgs = FreshSession.chat_msgs
    /\ system_prompt_position = FreshSession.system_prompt_position
    /\ current_position = FreshSession.current_position
    /\ stop_generation_position = FreshSession.stop_generation_position
    /\ cached_token_chars = FreshSession.cached_token_chars
    /\ assistant_ss = FreshSession.assistant_ss
    /\ kv = FreshSession.kv
    /\ crashed = FALSE
    /\ call = "prepare_session_ffi" /\ ret = Status(0)
    /\ obs = NoObs
    /\ turn_open = FALSE /\ gen_count = 0 /\ n_predict_turn = 0
    /\ gen_calls = 0 /\ turns = 0

NextWindow ==
    \/ \E n \in ShortSizes \cup LongSizes : \E fail_at \in FailChoices(n) :
          process_system_prompt_ffi(n, fail_at)
    \/ \E n \in ShortSizes \cup LongSizes : \E fail_at \in FailChoices(n) :
          process_user_prompt_ffi(n, 0 .. MaxPredict, fail_at)
    \/ \E tok \in Tokens, engine_ok \in BOOLEAN :
          generate_next_token_ffi(tok, engine_ok, FALSE)
    \/ stop_generation_ffi
    \/ reset_conversation_ffi

SpecWindow == InitPrepared /\ [][NextWindow]_vars

\* ---- generation on a prepared session, tokens carrying UTF-8 pieces ----
NextUtf8 ==
    \/ \E n \in ShortSizes : process_system_prompt_ffi(n, 0)
    \/ \E n \in ShortSizes : process_user_prompt_ffi(n, {MaxGenCalls}, 0)
    \/ \E tok \in Utf8Tokens, engine_ok \in BOOLEAN :
          generate_next_token_ffi(tok, engine_ok, FALSE)
    \/ stop_generation_ffi

SpecUtf8 == InitPrepared /\ [][NextUtf8]_vars

\* ---- a caller that polls generate_next_token_ffi without end ----
\* a token that is not end-of-generation and detokenizes to no text, so that
\* the accumulator does not grow with the calls
SilentToken == Token(<<>>)

PollStep == generate_next_token_ffi_polled(SilentToken)

\* the caller hands in a prompt only between turns
NextPoll ==
    \/ ~turn_open /\ \E n \in ShortSizes : process_system_prompt_ffi(n, 0)
    \/ ~turn_open /\ \E n \in LongSizes : process_user_prompt_ffi(n, {MaxPredict}, 0)
    \/ PollStep

\* the caller keeps polling: a generate_next_token_ffi call always comes
SpecPoll == InitPrepared /\ [][NextPoll]_vars /\ WF_vars(PollStep)

\* ---- the claims ----
\* C1: after a successful process_user_prompt_ffi with n_predict = N, the
\* generate_next_token_ffi calls of the turn return text for at most N tokens
\* before one returns the end-of-stream sentinel, a context shift during the
\* turn included.
C1_AtMostNPredictTokens == gen_count <= n_predict_turn

\* C2: at the return of every process_system_prompt_ffi,
\* process_user_prompt_ffi, generate_next_token_ffi, stop_generation_ffi and
\* reset_conversation_ffi call,
\* 0 <= system_prompt_position <= current_position <=
\* DEFAULT_CONTEXT_SIZE - OVERFLOW_HEADROOM.
C2_PositionsWithinWindow ==
    /\ 0 <= system_prompt_position
    /\ system_prompt_position <= current_position
    /\ current_position <= DEFAULT_CONTEXT_SIZE - OVERFLOW_HEADROOM

\* C3: a user prompt of more than DEFAULT_CONTEXT_SIZE - OVERFLOW_HEADROOM
\* tokens reaches the decode driver as exactly that many tokens, and they are
\* the last tokens of the prompt.
C3_TruncationKeepsTrailing ==
    (/\ call = "process_user_prompt_ffi"
     /\ obs.handed
     /\ obs.arg_tokens > DEFAULT_CONTEXT_SIZE - OVERFLOW_HEADROOM)
    => /\ Len(obs.decoded) = DEFAULT_CONTEXT_SIZE - OVERFLOW_HEADROOM
       /\ obs.decoded = SubSeq(Tokenize(obs.arg_tokens),
                               obs.arg_tokens - Len(obs.decoded) + 1,
                               obs.arg_tokens)

\* C4: on a prepared session, process_system_prompt_ffi with a prompt of more
\* than DEFAULT_CONTEXT_SIZE - OVERFLOW_HEADROOM tokens returns the "too long"
\* status 1, decodes nothing and leaves current_position as it was before
\* the call.
C4_TooLongLeavesPosition ==
    [][(/\ call' = "process_system_prompt_ffi"
        /\ g_context # NULL
        /\ obs'.arg_tokens > DEFAULT_CONTEXT_SIZE - OVERFLOW_HEADROOM)
       => /\ ret' = Status(1)
          /\ ~obs'.handed /\ obs'.decoded_at = {}
          /\ current_position' = current_position]_vars

\* C5: every shift_context run, whether decode_tokens_in_batches or
\* generate_next_token_ffi calls it, leaves system_prompt_position unchanged
\* and lowers current_position by exactly
\* floor((current_position - system_prompt_position) / 2); when the two are
\* equal it changes nothing.
C5_ShiftArithmetic ==
    \A h \in obs.shifts :
        /\ h.sys_after = h.sys_before
        /\ h.cur_after = h.cur_before - ((h.cur_before - h.sys_before) \div 2)
        /\ h.cur_before = h.sys_before => h.cur_after = h.cur_before /\ h.kv_same

\* a shift that decode_tokens_in_batches triggered and that discarded tokens
C5_Witness ==
    \E h \in obs.shifts : h.by = "decode" /\ h.cur_after < h.cur_before

\* C6: the positions a shift removes from the engine memory are
\* [system_prompt_position, system_prompt_position + n_discard) with
\* n_discard >= 0; no cell below system_prompt_position is removed or
\* renumbered, and no renumbered cell comes from or lands below it.
C6_EvictionAboveSystemPrompt ==
    \A h \in obs.shifts :
        /\ h.rm_from = h.sys_before
        /\ h.rm_to - h.rm_from >= 0
        /\ h.rm_to - h.rm_from = h.cur_before - h.cur_after
        /\ h.low_kept
        /\ h.add_from >= h.sys_before
        /\ h.add_from + h.delta >= h.sys_before

\* a shift that removed positions above a system prompt resident below them
C6_Witness ==
    \E h \in obs.shifts :
        /\ h.rm_to > h.rm_from /\ h.rm_from > 0
        /\ \E p \in Positions(kv) : p < h.rm_from

\* C7: a prompt decode that succeeds on a token sequence with
\* current_position + length < DEFAULT_CONTEXT_SIZE - OVERFLOW_HEADROOM runs no
\* shift and advances current_position by the length; after
\* process_system_prompt_ffi system_prompt_position = current_position =
\* the token count.
C7_ShortDecodeAdvances ==
    (/\ call \in {"process_system_prompt_ffi", "process_user_prompt_ffi"}
     /\ obs.handed /\ ret = Status(0)
     /\ obs.start_pos + Len(obs.decoded) < DEFAULT_CONTEXT_SIZE - OVERFLOW_HEADROOM)
    => /\ obs.shifts = {}
       /\ current_position = obs.start_pos + Len(obs.decoded)
       /\ obs.decoded_at = obs.start_pos .. obs.start_pos + Len(obs.decoded) - 1
       /\ call = "process_system_prompt_ffi" =>
             /\ system_prompt_position = Len(obs.decoded)
             /\ current_position = Len(obs.decoded)

\* a user prompt decoded, without a shift, on top of earlier tokens
C7_Witness ==
    /\ call = "process_user_prompt_ffi" /\ obs.handed /\ ret = Status(0)
    /\ obs.start_pos > 0
    /\ obs.start_pos + Len(obs.decoded) < DEFAULT_CONTEXT_SIZE - OVERFLOW_HEADROOM
    /\ current_position = obs.start_pos + Len(obs.decoded)

\* C8: with cached_token_chars empty, a generated token that carries all the
\* bytes of a well-formed 2-, 3- or 4-byte character makes
\* generate_next_token_ffi return that character as one chunk; when the bytes
\* come split over two consecutive generated tokens, at any interior point,
\* the first call returns the empty chunk and the second the whole character.
C8_Utf8Assembly ==
    [][call' = "generate_next_token_ffi" =>
        /\ (cached_token_chars = <<>> /\ obs'.piece \in Utf8Chars)
           => ret' = Chunk(obs'.piece)
        /\ (cached_token_chars = <<>> /\ \E c \in Utf8Chars : obs'.piece \in Heads(c))
           => ret' = Chunk(<<>>)
        /\ (/\ call = "generate_next_token_ffi"
            /\ obs.piece # <<>> /\ cached_token_chars = obs.piece
            /\ ret = Chunk(<<>>)
            /\ obs'.piece # <<>>
            /\ obs.piece \o obs'.piece \in Utf8Chars)
           => ret' = Chunk(obs.piece \o obs'.piece)]_vars

\* the second of two tokens completed a character and the call returned it
C8_Witness ==
    /\ call = "generate_next_token_ffi"
    /\ ret.kind = "chunk" /\ ret.chunk \in Utf8Chars
    /\ obs.piece \in Tails(ret.chunk)
    /\ cached_token_chars = <<>>

\* C9: no sequence of calls frees a handle (sampler, batch, context, model)
\* that is not live, and an unload_ffi that follows an unload_ffi frees
\* nothing and leaves the state as the first left it.
C9_UnloadIdempotent ==
    [][/\ double_freed' = {}
       /\ (call = "unload_ffi" /\ call' = "unload_ffi")
          => UNCHANGED <<backend_ready, handleVars, sessionVars>>]_vars

\* unload_ffi has freed the four handles of a loaded, prepared session
C9_Witness ==
    /\ call = "unload_ffi"
    /\ g_model = NULL /\ g_context = NULL /\ g_sampler = NULL
    /\ g_batch # NULL /\ g_batch \notin live
    /\ live = {}

\* C10: on a prepared session reset_conversation_ffi zeroes
\* system_prompt_position and current_position, clears the turn's state and
\* empties the engine memory; a process_system_prompt_ffi that follows it
\* returns the status and leaves the session that the same call, with the same
\* prompt, gives on a freshly prepared session.
C10_ResetThenSystemPrompt ==
    [][/\ (call' = "reset_conversation_ffi" /\ g_context # NULL)
          => /\ system_prompt_position' = 0 /\ current_position' = 0
             /\ stop_generation_position' = 0
             /\ cached_token_chars' = <<>> /\ assistant_ss' = <<>>
             /\ chat_msgs' = <<>>
             /\ kv' = EmptyMemory
       /\ (/\ call = "reset_conversation_ffi" /\ g_context # NULL
           /\ call' = "process_system_prompt_ffi")
          => LET first == SystemPromptOn(FreshSession, g_context,
                                         obs'.arg_tokens, obs'.fail_at)
             IN /\ ret' = Status(first.ret)
                /\ system_prompt_position' = first.s.system_prompt_position
                /\ current_position' = first.s.current_position
                /\ stop_generation_position' = first.s.stop_generation_position
                /\ cached_token_chars' = first.s.cached_token_chars
                /\ assistant_ss' = first.s.assistant_ss
                /\ kv' = first.s.kv]_vars

\* reset_conversation_ffi has acted on a conversation in which tokens were
\* generated
C10_Witness ==
    /\ call = "reset_conversation_ffi"
    /\ gen_count > 0
    /\ current_position = 0 /\ kv = EmptyMemory

\* C11: an entry point whose precondition does not hold returns a nonzero
\* status or the null sentinel and neither decodes nor samples:
\* prepare_session_ffi without a model, process_system_prompt_ffi without a
\* prepared session, process_user_prompt_ffi before a system prompt was
\* processed, generate_next_token_ffi before a user prompt was processed.
C11_PreconditionsChecked ==
    /\ (call = "prepare_session_ffi" /\ g_model = NULL) => ret.status # 0
    /\ (call = "process_system_prompt_ffi" /\ g_context = NULL)
       => ret.status # 0 /\ ~obs.handed
    /\ (call = "process_user_prompt_ffi" /\ system_prompt_position = 0)
       => ret.status # 0 /\ ~obs.handed
    /\ (call = "generate_next_token_ffi" /\ turns = 0)
       => ret = NullPtr /\ ~obs.sampled

\* C12: stop_generation_ffi zeroes stop_generation_position and empties
\* cached_token_chars and the assistant accumulator, and changes nothing else:
\* system_prompt_position, current_position, the chat history, the engine
\* memory and the handles stay as they were.
C12_StopClearsTurnOnly ==
    [][call' = "stop_generation_ffi" =>
        /\ stop_generation_position' = 0
        /\ cached_token_chars' = <<>>
        /\ assistant_ss' = <<>>
        /\ UNCHANGED <<system_prompt_position, current_position, chat_msgs, kv,
                       backend_ready, handleVars>>]_vars

\* stop_generation_ffi has been called in a turn that had generated tokens
C12_Witness ==
    /\ call = "stop_generation_ffi"
    /\ gen_count > 0
    /\ current_position > system_prompt_position
    /\ stop_generation_position = 0 /\ assistant_ss = <<>>

\* C13: every position that decode_tokens_in_batches and
\* generate_next_token_ffi pass to llama_decode is below
\* DEFAULT_CONTEXT_SIZE.
C13_PositionsBelowCapacity ==
    \A p \in obs.decoded_at : 0 <= p /\ p < DEFAULT_CONTEXT_SIZE

\* C14: at the return of every successful process_system_prompt_ffi,
\* process_user_prompt_ffi and generate_next_token_ffi that decoded its token,
\* the engine memory holds exactly one cell for each position of
\* 0 .. current_position - 1 and no other.
C14_MemoryIsContiguous ==
    (\/ /\ call \in {"process_system_prompt_ffi", "process_user_prompt_ffi"}
        /\ obs.handed /\ ret = Status(0)
     \/ /\ call = "generate_next_token_ffi"
        /\ obs.sampled /\ obs.decoded_at # {})
    => kv = SetToBag(0 .. current_position - 1)

\* C15: after a successful process_user_prompt_ffi, a caller that keeps
\* polling generate_next_token_ffi eventually gets the end-of-stream sentinel,
\* even when no end-of-generation token is sampled and no decode fails.
C15_PollingEnds == turn_open ~> ~turn_open

\* C16: a decode that reports failure ends the operation at that batch (no
\* batch at or after the refused one is decoded), the operation returns its
\* failure signal (status 2 from the prompt calls, nullptr from
\* generate_next_token_ffi) and current_position is not advanced; a failed
\* process_user_prompt_ffi leaves stop_generation_position = 0, and a
\* generate_next_token_ffi call that follows it returns nullptr without
\* sampling
C16_DecodeFailureAborts ==
    [][/\ (/\ call' \in {"process_system_prompt_ffi", "process_user_prompt_ffi"}
           /\ obs'.handed
           /\ obs'.fail_at \in 1 .. Len(obs'.decoded))
          => /\ ret' = Status(2)
             /\ obs'.decoded_at \subseteq
                   obs'.start_pos .. obs'.start_pos + obs'.fail_at - 2
       /\ (call' = "process_system_prompt_ffi" /\ ret' = Status(2))
          => current_position' = 0
       /\ (call' = "process_user_prompt_ffi" /\ ret' = Status(2))
          => /\ current_position' <= current_position
             /\ stop_generation_position' = 0
       /\ (call' = "generate_next_token_ffi" /\ obs'.sampled /\ obs'.decoded_at = {})
          => /\ ret' = NullPtr
             /\ current_position' <= current_position
       /\ (/\ call = "process_user_prompt_ffi" /\ ret = Status(2)
           /\ call' = "generate_next_token_ffi")
          => ret' = NullPtr /\ ~obs'.sampled]_vars

\* a user prompt refused at a batch in its middle, after a system prompt
C16_Witness ==
    /\ call = "process_user_prompt_ffi" /\ ret = Status(2)
    /\ obs.fail_at > 1 /\ obs.fail_at < Len(obs.decoded)
    /\ obs.decoded_at # {}
    /\ system_prompt_position > 0
    /\ current_position = system_prompt_position
    /\ stop_generation_position = 0

\* C17: after every call cached_token_chars is empty or a byte string that
\* is_valid_utf8 rejects; a generate_next_token_ffi call whose buffered bytes
\* plus the new piece validate returns them whole, appends them to the
\* accumulator and empties the buffer, and one whose bytes do not validate
\* returns the empty chunk and keeps them
C17_BufferNeverHoldsValid ==
    [][/\ cached_token_chars' = <<>> \/ ~is_valid_utf8(cached_token_chars')
       /\ (/\ call' = "generate_next_token_ffi"
           /\ obs'.sampled /\ obs'.decoded_at # {} /\ ~obs'.eog)
          => LET cached == cached_token_chars \o obs'.piece
             IN IF is_valid_utf8(cached)
                THEN /\ ret' = Chunk(cached)
                     /\ assistant_ss' = assistant_ss \o cached
                     /\ cached_token_chars' = <<>>
                ELSE /\ ret' = Chunk(<<>>)
                     /\ assistant_ss' = assistant_ss
                     /\ cached_token_chars' = cached]_vars

\* the second call of a turn completes the character the first one began: the
\* accumulator holds a whole multi-byte character and the buffer is empty
C17_Witness ==
    /\ call = "generate_next_token_ffi" /\ ret.kind = "chunk"
    /\ Len(obs.piece) >= 1 /\ Len(ret.chunk) > Len(obs.piece)
    /\ assistant_ss = ret.chunk
    /\ cached_token_chars = <<>>

\* C18: when unload_ffi or shutdown_ffi returns, every handle that was created
\* has been freed, and none was freed twice
C18_NoHandleLost ==
    call \in {"unload_ffi", "shutdown_ffi"} => live = {} /\ double_freed = {}

\* C19: the context and the sampler are both set or both null, they are set
\* only while the model is, and a generate_next_token_ffi call that decodes a
\* token finds the model set
C19_SessionHandlesTogether ==
    /\ (g_context # NULL) = (g_sampler # NULL)
    /\ g_context # NULL => g_model # NULL
    /\ (call = "generate_next_token_ffi" /\ obs.decoded_at # {}) => g_model # NULL

\* C20: a generate_next_token_ffi call that follows one that returned nullptr
\* at the stop position or on an end-of-generation token returns nullptr
\* without sampling
C20_HaltedAfterSentinel ==
    [][(/\ call = "generate_next_token_ffi" /\ ret = NullPtr
        /\ obs.eog \/ ~obs.sampled
        /\ call' = "generate_next_token_ffi")
       => ret' = NullPtr /\ ~obs'.sampled]_vars

====
